---------------------------- MODULE Spec2Model ----------------------------
(***************************************************************************)
(* A model of labcore/ddh5.py: the schema builder                          *)
(* _create_datadict_structure, the filter predicate _check_none and the    *)
(* sweep runner run_and_save_sweep.                                        *)
(*                                                                         *)
(* A Python dict is a function whose domain is its key set; an absent key  *)
(* is a name outside the domain, a key holding None is a name mapped to    *)
(* NoneVal.  The storage writer (DDH5Writer) is an external collaborator:  *)
(* the model records, in writerLog, the calls the runner makes on it.      *)
(***************************************************************************)
EXTENDS Integers, Sequences, FiniteSets, TLC

\* ------------------------------------------------------------------ bounds
MaxSpecs == 2        \* longest tuple of data specs of a sweep
MaxRows  == 2        \* longest sequence of rows a sweep yields

\* ------------------------------------------------------------- Python data
NoneVal == "None"

\* A dict with no key.
EmptyDict == [k \in {} |-> NoneVal]

\* d[k] = v on a dict.
DictSet(d, k, v) == [n \in (DOMAIN d) \cup {k} |-> IF n = k THEN v ELSE d[n]]

\* Optional attributes of a DataSpec: Absent is Python's None, Some(v) a value.
Absent  == <<>>
Some(v) == <<v>>

FieldNames == {"x", "y"}
Units      == {Absent, Some("V")}
DependsOn  == {Absent, Some(<<"x">>)}

\* The DataSpecs a sweep may declare: name, unit, depends_on.
DataSpecs == [name : FieldNames, unit : Units, depends_on : DependsOn]

\* Values of a row: None, two scalars, and an array-like value (numpy array).
Scalars == {"0", "1"}
Arr     == "arr"
Values  == {NoneVal, Arr} \cup Scalars

\* Rows: dicts from field names to values, the empty row included.
Rows == UNION {[S -> Values] : S \in SUBSET FieldNames}

\* v.shape exists only on array-like values; elsewhere the attribute read raises.
HasShape(v) == v = Arr

\* hash(v) raises TypeError on an array-like value.
Hashable(v) == v # Arr

VARIABLES
    pc,            \* position in run_and_save_sweep
    flag,          \* ignore_all_None_results
    specs,         \* sweep.get_data_specs()
    i,             \* number of specs the builder loop has consumed
    data_dict,     \* the DataDict under construction / built
    sweep,         \* the rows the sweep will yield and how its iteration ends
    pos,           \* number of rows the sweep has yielded
    line,          \* the row in hand
    info,          \* the discarded diagnostic of lines 98-102
    shapeCaught,   \* exceptions of v.shape swallowed by the bare except
    verdict,       \* what _check_none gave for the row in hand, or "unset"
    writerLog,     \* calls made on the DDH5Writer, in order
    exc,           \* the exception in flight inside the function, or "none"
    caller,        \* what the caller of run_and_save_sweep receives
    printed        \* the completion notice has been printed

vars == <<pc, flag, specs, i, data_dict, sweep, pos, line, info, shapeCaught,
          verdict, writerLog, exc, caller, printed>>

\* ------------------------------------------------------ _create_datadict_structure
\* The entry the builder stores for one spec (lines 51-60).
SpecEntryNullUnit(spec) ==
    IF spec.depends_on = Absent
    THEN [k \in {"unit"} |-> IF spec.unit = Absent THEN NoneVal ELSE spec.unit[1]]
    ELSE [k \in {"axes", "unit"} |->
            IF k = "axes" THEN spec.depends_on[1]
            ELSE IF spec.unit = Absent THEN NoneVal ELSE spec.unit[1]]

SpecEntry(spec) ==
    IF spec.depends_on = Absent
    THEN IF spec.unit = Absent
         THEN EmptyDict
         ELSE [k \in {"unit"} |-> spec.unit[1]]
    ELSE IF spec.unit = Absent
         THEN [k \in {"axes"} |-> spec.depends_on[1]]
         ELSE [k \in {"axes", "unit"} |->
                 IF k = "axes" THEN spec.depends_on[1] ELSE spec.unit[1]]

\* data_dict.validate(): every axis names a field of the dict.
Validates(dd) ==
    \A n \in DOMAIN dd :
        "axes" \in DOMAIN dd[n] =>
            \A a \in 1..Len(dd[n]["axes"]) : dd[n]["axes"][a] \in DOMAIN dd


\* ------------------------------------------------------------------ _check_none
\* The value of _check_none(line, all): "True", "False", or "TypeError" when
\* building set(line.values()) raises on an unhashable value.
\* The all=False branch without the test that the values collapse to one.
CheckNoneAnyNone(ln, all) ==
    IF all
    THEN IF \E k \in DOMAIN ln : ln[k] = NoneVal THEN "True" ELSE "False"
    ELSE IF \E k \in DOMAIN ln : ~Hashable(ln[k])
         THEN "TypeError"
         ELSE IF \E k \in DOMAIN ln : ln[k] = NoneVal THEN "True" ELSE "False"

\* The all=True branch as all(v is None for v in line.values()).
CheckNoneEveryNone(ln, all) ==
    IF all
    THEN IF \A k \in DOMAIN ln : ln[k] = NoneVal THEN "True" ELSE "False"
    ELSE IF \E k \in DOMAIN ln : ~Hashable(ln[k])
         THEN "TypeError"
         ELSE IF Cardinality({ln[k] : k \in DOMAIN ln}) = 1
              THEN IF \E k \in DOMAIN ln : ln[k] = NoneVal
                   THEN "True" ELSE "False"
              ELSE "False"

CheckNone(ln, all) ==
    IF all
    THEN IF \E k \in DOMAIN ln : ln[k] = NoneVal THEN "True" ELSE "False"
    ELSE IF \E k \in DOMAIN ln : ~Hashable(ln[k])
         THEN "TypeError"
         ELSE IF Cardinality({ln[k] : k \in DOMAIN ln}) = 1
              THEN IF \E k \in DOMAIN ln : ln[k] = NoneVal
                   THEN "True" ELSE "False"
              ELSE "False"

\* ------------------------------------------------------------ run_and_save_sweep
\* Sequences over S of length at most n.
SeqsUpTo(S, n) == UNION {[1..m -> S] : m \in 0..n}

\* A sweep: the rows its iterator yields, then StopIteration or an exception.
Sweeps == [rows : SeqsUpTo(Rows, MaxRows), ending : {"stop", "raise"}]

Row2(vx, vy) == [k \in {"x", "y"} |-> IF k = "x" THEN vx ELSE vy]

\* The schema of one independent field x and one dependent field y, and a
\* schema whose only field names an axis that is not declared.
ExampleSpecs ==
    { << [name |-> "x", unit |-> Absent, depends_on |-> Absent],
         [name |-> "y", unit |-> Some("V"), depends_on |-> Some(<<"x">>)] >>,
      << [name |-> "y", unit |-> Some("V"), depends_on |-> Some(<<"x">>)] >> }

\* Sweeps over that schema: three rows of which the second holds a None, and a
\* sweep whose iterator raises after a row holding an array.
ExampleSweeps ==
    { [rows |-> << Row2("0", "0"), Row2("1", NoneVal), Row2("2", "4") >>,
       ending |-> "stop"],
      [rows |-> << Row2("1", Arr) >>, ending |-> "raise"] }

NoLine == EmptyDict

\* The diagnostic of lines 98-102 after the loop over line.items(): the shape of
\* the last value, or the value itself where reading the shape raised.  Keys are
\* taken in the order x, y.
Diag(v) == IF HasShape(v) THEN "shape" ELSE v
LastInfo(ln, old) ==
    IF "y" \in DOMAIN ln THEN Diag(ln["y"])
    ELSE IF "x" \in DOMAIN ln THEN Diag(ln["x"])
    ELSE old

Call(op, kw, e) == [op |-> op, kw |-> kw, exc |-> e]

InitCommon ==
    /\ pc = "build"
    /\ flag \in BOOLEAN
    /\ i = 0
    /\ data_dict = EmptyDict
    /\ pos = 0
    /\ line = NoLine
    /\ info = "unbound"
    /\ shapeCaught = 0
    /\ verdict = "unset"
    /\ writerLog = <<>>
    /\ exc = "none"
    /\ caller = "running"
    /\ printed = FALSE

\* Every sweep of at most MaxRows rows over the example schemas.
Init ==
    /\ InitCommon
    /\ specs \in ExampleSpecs
    /\ sweep \in Sweeps

\* Every tuple of at most MaxSpecs data specs, with the example sweeps.
InitSchema ==
    /\ InitCommon
    /\ specs \in SeqsUpTo(DataSpecs, MaxSpecs)
    /\ sweep \in ExampleSweeps

\* Lines 44-60: one iteration of the loop over the data specs.
BuildStep ==
    /\ pc = "build"
    /\ i < Len(specs)
    /\ i' = i + 1
    /\ data_dict' = DictSet(data_dict, specs[i + 1].name, SpecEntry(specs[i + 1]))
    /\ UNCHANGED <<verdict, pc, flag, specs, sweep, pos, line, info, shapeCaught,
                   writerLog, exc, caller, printed>>

\* Line 62, validation passes: the dict is returned (line 64, 93).
ValidateOk ==
    /\ pc = "build"
    /\ i = Len(specs)
    /\ Validates(data_dict)
    /\ pc' = "with"
    /\ UNCHANGED <<verdict, flag, specs, i, data_dict, sweep, pos, line, info,
                   shapeCaught, writerLog, exc, caller, printed>>

\* The failed validation goes unnoticed and the run goes on to the writer.
ValidateFailIgnored ==
    /\ pc = "build"
    /\ i = Len(specs)
    /\ ~Validates(data_dict)
    /\ pc' = "with"
    /\ UNCHANGED <<verdict, flag, specs, i, data_dict, sweep, pos, line, info,
                   shapeCaught, writerLog, exc, caller, printed>>

\* Line 62, validation raises: nothing in run_and_save_sweep catches it.
ValidateFail ==
    /\ pc = "build"
    /\ i = Len(specs)
    /\ ~Validates(data_dict)
    /\ pc' = "raised"
    /\ exc' = "ValueError"
    /\ caller' = "ValueError"
    /\ UNCHANGED <<verdict, flag, specs, i, data_dict, sweep, pos, line, info,
                   shapeCaught, writerLog, printed>>

\* Line 96: the writer is constructed and entered.
EnterWriter ==
    /\ pc = "with"
    /\ writerLog' = Append(writerLog, Call("__enter__", EmptyDict, "none"))
    /\ pc' = "next"
    /\ UNCHANGED <<verdict, flag, specs, i, data_dict, sweep, pos, line, info,
                   shapeCaught, exc, caller, printed>>

\* Line 96: constructing or entering the writer raises; the with block and the
\* writer's release are never reached.
EnterWriterRaises ==
    /\ pc = "with"
    /\ pc' = "raised"
    /\ exc' = "EnterError"
    /\ caller' = "EnterError"
    /\ UNCHANGED <<verdict, flag, specs, i, data_dict, sweep, pos, line, info,
                   shapeCaught, writerLog, printed>>

\* Line 97: the sweep yields its next row.
NextRow ==
    /\ pc = "next"
    /\ pos < Len(sweep.rows)
    /\ pos' = pos + 1
    /\ line' = sweep.rows[pos + 1]
    /\ pc' = "shape"
    /\ verdict' = "unset"
    /\ UNCHANGED <<flag, specs, i, data_dict, sweep, info, shapeCaught,
                   writerLog, exc, caller, printed>>

\* Line 97: the sweep is exhausted; the with block ends normally.
SweepStops ==
    /\ pc = "next"
    /\ pos = Len(sweep.rows)
    /\ sweep.ending = "stop"
    /\ pc' = "exit"
    /\ UNCHANGED <<verdict, flag, specs, i, data_dict, sweep, pos, line, info,
                   shapeCaught, writerLog, exc, caller, printed>>

\* Line 97: the sweep's iterator raises.
SweepRaises ==
    /\ pc = "next"
    /\ pos = Len(sweep.rows)
    /\ sweep.ending = "raise"
    /\ exc' = "SweepError"
    /\ pc' = "exit_exc"
    /\ UNCHANGED <<verdict, flag, specs, i, data_dict, sweep, pos, line, info,
                   shapeCaught, writerLog, caller, printed>>

\* Number of values of the row whose shape read raises.
NoShapeCount(ln) == Cardinality({k \in DOMAIN ln : ~HasShape(ln[k])})

\* The exception of the first failing shape read escapes the loop.
ShapeLoopUncaught ==
    /\ pc = "shape"
    /\ IF NoShapeCount(line) = 0
       THEN /\ info' = LastInfo(line, info)
            /\ pc' = "filter"
            /\ exc' = exc
       ELSE /\ info' = info
            /\ pc' = "exit_exc"
            /\ exc' = "AttributeError"
    /\ shapeCaught' = 0
    /\ UNCHANGED <<verdict, flag, specs, i, data_dict, sweep, pos, line, writerLog,
                   caller, printed>>

\* Lines 98-102: the loop over line.items(); the bare except swallows every
\* exception of the shape read and binds info to the value instead.
ShapeLoop ==
    /\ pc = "shape"
    /\ info' = LastInfo(line, info)
    /\ shapeCaught' = NoShapeCount(line)
    /\ pc' = "filter"
    /\ UNCHANGED <<verdict, flag, specs, i, data_dict, sweep, pos, line, writerLog,
                   exc, caller, printed>>

\* Line 103: _check_none returns True; the row is skipped.
FilterSkip ==
    /\ pc = "filter"
    /\ CheckNone(line, flag) = "True"
    /\ pc' = "next"
    /\ verdict' = "True"
    /\ UNCHANGED <<flag, specs, i, data_dict, sweep, pos, line, info,
                   shapeCaught, writerLog, exc, caller, printed>>

\* The test of line 103 without its negation.
FilterKeepInverted ==
    /\ pc = "filter"
    /\ CheckNone(line, flag) = "True"
    /\ pc' = "add"
    /\ verdict' = "True"
    /\ UNCHANGED <<flag, specs, i, data_dict, sweep, pos, line, info,
                   shapeCaught, writerLog, exc, caller, printed>>

\* Line 103: _check_none returns False; the row goes to the writer.
FilterKeep ==
    /\ pc = "filter"
    /\ CheckNone(line, flag) = "False"
    /\ pc' = "add"
    /\ verdict' = "False"
    /\ UNCHANGED <<flag, specs, i, data_dict, sweep, pos, line, info,
                   shapeCaught, writerLog, exc, caller, printed>>

\* Line 103: _check_none raises.
FilterRaises ==
    /\ pc = "filter"
    /\ CheckNone(line, flag) = "TypeError"
    /\ exc' = "TypeError"
    /\ pc' = "exit_exc"
    /\ verdict' = "TypeError"
    /\ UNCHANGED <<flag, specs, i, data_dict, sweep, pos, line, info,
                   shapeCaught, writerLog, caller, printed>>

\* Line 104: writer.add_data(**line) returns.
AddData ==
    /\ pc = "add"
    /\ writerLog' = Append(writerLog, Call("add_data", line, "none"))
    /\ pc' = "next"
    /\ UNCHANGED <<verdict, flag, specs, i, data_dict, sweep, pos, line, info,
                   shapeCaught, exc, caller, printed>>

\* Line 104: writer.add_data(**line) raises.
AddDataRaises ==
    /\ pc = "add"
    /\ writerLog' = Append(writerLog, Call("add_data", line, "AddError"))
    /\ exc' = "AddError"
    /\ pc' = "exit_exc"
    /\ UNCHANGED <<verdict, flag, specs, i, data_dict, sweep, pos, line, info,
                   shapeCaught, caller, printed>>

\* Line 96, leaving the with block normally: the writer is released.
ExitWriter ==
    /\ pc = "exit"
    /\ writerLog' = Append(writerLog, Call("__exit__", EmptyDict, "none"))
    /\ pc' = "print"
    /\ UNCHANGED <<verdict, flag, specs, i, data_dict, sweep, pos, line, info,
                   shapeCaught, exc, caller, printed>>

\* The exception leaves the block without the writer's release.
ExitWriterOnExceptionNoRelease ==
    /\ pc = "exit_exc"
    /\ pc' = "raised"
    /\ caller' = exc
    /\ UNCHANGED <<verdict, flag, specs, i, data_dict, sweep, pos, line, info,
                   shapeCaught, writerLog, exc, printed>>

\* The release swallows the exception and the function runs on to line 106.
ExitWriterOnExceptionSwallowed ==
    /\ pc = "exit_exc"
    /\ writerLog' = Append(writerLog, Call("__exit__", EmptyDict, exc))
    /\ pc' = "print"
    /\ UNCHANGED <<verdict, flag, specs, i, data_dict, sweep, pos, line, info,
                   shapeCaught, exc, caller, printed>>

\* Line 96, an exception leaving the with block: the writer is released with
\* the exception, which then propagates out of run_and_save_sweep.
ExitWriterOnException ==
    /\ pc = "exit_exc"
    /\ writerLog' = Append(writerLog, Call("__exit__", EmptyDict, exc))
    /\ pc' = "raised"
    /\ caller' = exc
    /\ UNCHANGED <<verdict, flag, specs, i, data_dict, sweep, pos, line, info,
                   shapeCaught, exc, printed>>

\* Line 106: the completion notice; the function returns None.
PrintNotice ==
    /\ pc = "print"
    /\ printed' = TRUE
    /\ caller' = "returned"
    /\ pc' = "done"
    /\ UNCHANGED <<verdict, flag, specs, i, data_dict, sweep, pos, line, info,
                   shapeCaught, writerLog, exc>>

Next ==
    \/ BuildStep
    \/ ValidateOk
    \/ ValidateFail
    \/ EnterWriter
    \/ EnterWriterRaises
    \/ NextRow
    \/ SweepStops
    \/ SweepRaises
    \/ ShapeLoop
    \/ FilterSkip
    \/ FilterKeep
    \/ FilterRaises
    \/ AddData
    \/ AddDataRaises
    \/ ExitWriter
    \/ ExitWriterOnException
    \/ PrintNotice

Spec == Init /\ [][Next]_vars

SpecSchema == InitSchema /\ [][Next]_vars

TypeOK ==
    /\ pc \in {"build", "with", "next", "shape", "filter", "add", "exit",
               "exit_exc", "print", "done", "raised"}
    /\ flag \in BOOLEAN
    /\ i \in 0..Len(specs)
    /\ pos \in 0..Len(sweep.rows)
    /\ printed \in BOOLEAN
    /\ verdict \in {"unset", "True", "False", "TypeError"}

\* ------------------------------------------------------------------ properties
IsAdd(e)   == e.op = "add_data"
IsExit(e)  == e.op = "__exit__"
IsEnter(e) == e.op = "__enter__"

\* The rows handed to add_data, in call order.
AddedRows ==
    LET adds == SelectSeq(writerLog, IsAdd)
    IN  [j \in 1..Len(adds) |-> adds[j].kw]

Releases == Len(SelectSeq(writerLog, IsExit))
Acquired == Len(writerLog) > 0 /\ IsEnter(writerLog[1])
Finished == pc \in {"done", "raised"}

\* The rows of the sweep that _check_none does not flag, in iteration order.
KeptRows ==
    LET Keep(r) == CheckNone(r, flag) = "False"
    IN  SelectSeq(sweep.rows, Keep)

C2_ReleasedExactlyOnce ==
    /\ Releases <= 1
    /\ ~Acquired => Releases = 0
    /\ (Acquired /\ pc \in {"print", "done", "raised"}) =>
           /\ Releases = 1
           /\ IsExit(writerLog[Len(writerLog)])
    /\ (Acquired /\ pc \notin {"print", "done", "raised"}) => Releases = 0

\* A run that fails in add_data on its first row, with a row still to come,
\* after the writer's release.
C2_Witness ==
    /\ pc = "raised"
    /\ caller = "AddError"
    /\ pos = 1
    /\ Len(sweep.rows) = 2
    /\ Releases = 1

\* C3: if validation of the built schema fails, the run aborts with that error
\* before any I/O: no writer is entered, no row is requested, no add_data call
\* is made and the notice is not printed.
C3_ValidationFailureAborts ==
    (i = Len(specs) /\ ~Validates(data_dict) /\ pc # "build") =>
        /\ pc = "raised"
        /\ caller = "ValueError"
        /\ writerLog = <<>>
        /\ pos = 0
        /\ line = NoLine
        /\ ~printed

\* A run over a schema whose field y names the axis x, x not being a field.
C3_Witness ==
    /\ pc = "raised"
    /\ caller = "ValueError"
    /\ DOMAIN data_dict = {"y"}
    /\ "axes" \in DOMAIN data_dict["y"]
    /\ data_dict["y"]["axes"] = <<"x">>

\* The keys an entry must hold for a spec: unit iff the spec has a unit, axes
\* iff it has depends_on.
EntryKeys(spec) ==
    (IF spec.unit = Absent THEN {} ELSE {"unit"})
        \cup (IF spec.depends_on = Absent THEN {} ELSE {"axes"})

\* Spec j of the first n is not followed by a spec of the same name.
LastOfName(j, n) == \A k \in (j + 1)..n : specs[k].name # specs[j].name

\* C4: the entry built under a spec's name holds the key unit iff the spec has
\* a unit (with that value), the key axes iff it has depends_on (with that
\* value), and no other key; an absent attribute is omitted, not stored as
\* None.  The entry stays until a later spec of the same name replaces it.
C4_EntryHoldsOnlyPresentAttributes ==
    /\ DOMAIN data_dict = {specs[j].name : j \in 1..i}
    /\ \A j \in 1..i :
          LastOfName(j, i) =>
              LET e == data_dict[specs[j].name]
              IN  /\ DOMAIN e = EntryKeys(specs[j])
                  /\ "unit" \in DOMAIN e => e["unit"] = specs[j].unit[1]
                  /\ "axes" \in DOMAIN e => e["axes"] = specs[j].depends_on[1]
                  /\ \A k \in DOMAIN e : e[k] # NoneVal

\* A built schema of a spec lacking both attributes and a spec holding both.
C4_Witness ==
    /\ i = 2
    /\ Len(specs) = 2
    /\ pc = "with"
    /\ DOMAIN data_dict = {"x", "y"}
    /\ DOMAIN data_dict["x"] = {}
    /\ DOMAIN data_dict["y"] = {"axes", "unit"}
    /\ data_dict["y"]["unit"] = "V"
    /\ data_dict["y"]["axes"] = <<"x">>

\* The row in hand has been through _check_none.
Judged == verdict # "unset"

RowValues(ln) == {ln[k] : k \in DOMAIN ln}

C6_CheckNoneNeverRaises ==
    Judged => verdict \in {"True", "False"}

\* C7: an exception raised while iterating the sweep or while appending is not
\* caught or wrapped: the writer is released with it, the same exception
\* reaches the caller, no further row is requested or appended, and the notice
\* is not printed; the notice is printed only after every row was processed
\* without an exception.
C7_ExceptionPropagatesAfterRelease ==
    /\ exc \in {"SweepError", "AddError", "TypeError"} =>
          /\ pc \in {"exit_exc", "raised"}
          /\ ~printed
          /\ caller \in {"running", exc}
          /\ pc = "raised" =>
                /\ caller = exc
                /\ writerLog[Len(writerLog)] = Call("__exit__", EmptyDict, exc)
    /\ exc = "AddError" =>
          /\ Len(AddedRows) >= 1
          /\ AddedRows[Len(AddedRows)] = sweep.rows[pos]
          /\ \E j \in 1..Len(writerLog) :
                /\ writerLog[j] = Call("add_data", sweep.rows[pos], "AddError")
                /\ \A k \in (j + 1)..Len(writerLog) : IsExit(writerLog[k])
    /\ exc = "SweepError" => pos = Len(sweep.rows)
    /\ pc \in {"print", "done"} =>
          /\ exc = "none"
          /\ pos = Len(sweep.rows)
          /\ sweep.ending = "stop"
    /\ printed => pc = "done" /\ caller = "returned"

\* The sweep's iterator raised after one appended row; the caller has
\* received that exception after the writer's release.
C7_Witness ==
    /\ pc = "raised"
    /\ caller = "SweepError"
    /\ pos = 1
    /\ Len(AddedRows) = 1
    /\ writerLog[Len(writerLog)] = Call("__exit__", EmptyDict, "SweepError")

\* C8 as stated: an exception raised by reading a value's shape is not caught
\* locally, so a row holding a value without a shape never reaches the filter
\* and is never appended.
C8_ShapeErrorPropagates ==
    /\ pc \in {"filter", "add"} => NoShapeCount(line) = 0
    /\ \A j \in 1..Len(AddedRows) : NoShapeCount(AddedRows[j]) = 0

\* C8 amended: an exception raised by reading a value's shape is caught by the
\* bare except of the loop: it is never in flight outside the loop and never
\* reaches the caller, and the row goes on, unchanged, to the filter.
C8_ShapeErrorCaughtLocally ==
    /\ exc # "AttributeError"
    /\ caller # "AttributeError"
    /\ pc \in {"filter", "add"} =>
          /\ line = sweep.rows[pos]
          /\ shapeCaught = NoShapeCount(line)
    /\ \A j \in 1..Len(sweep.rows) :
          (j < pos /\ CheckNone(sweep.rows[j], flag) = "False") =>
              \E k \in 1..Len(writerLog) :
                  IsAdd(writerLog[k]) /\ writerLog[k].kw = sweep.rows[j]

\* A row of two scalars, both shape reads of which raised, has been appended.
C8_Witness ==
    /\ pc = "next"
    /\ shapeCaught = 2
    /\ Len(writerLog) >= 2
    /\ writerLog[Len(writerLog)] = Call("add_data", Row2("0", "1"), "none")

\* C9: in its default mode all=True, _check_none returns True if all values of
\* the row are None and False otherwise, so a row mixing None and other values
\* yields False and is written.
C9_DefaultModeMeansAllNone ==
    (Judged /\ flag) =>
        (verdict = "True" <=> (DOMAIN line # {} /\ RowValues(line) = {NoneVal}))

\* C10: an empty row is never classified as degenerate, in either mode, and
\* each empty row the sweep yields gets exactly one add_data call with no
\* values.
C10_EmptyRowIsAppended ==
    /\ (Judged /\ DOMAIN line = {}) => verdict = "False"
    /\ (pc = "next" /\ exc = "none") =>
          Cardinality({j \in 1..Len(writerLog) :
                          IsAdd(writerLog[j]) /\ DOMAIN writerLog[j].kw = {}})
              = Cardinality({j \in 1..pos : DOMAIN sweep.rows[j] = {}})

\* With all=False, an empty row has been appended by a call with no values.
C10_Witness ==
    /\ pc = "next"
    /\ ~flag
    /\ pos = 1
    /\ DOMAIN sweep.rows[1] = {}
    /\ writerLog = << Call("__enter__", EmptyDict, "none"),
                      Call("add_data", EmptyDict, "none") >>
============================================================================
